---- MODULE Spec2Model ----
(***************************************************************************)
(* The sweep of src/src/2geom/toys/sweep-graph.cpp as a state machine.     *)
(*                                                                         *)
(* Numbers.  Curve parameters and coordinates are fixed-point integers in  *)
(* units of 1e-7: the parameter value 1.0 is One, the probe step 0.01 of   *)
(* SectionSorter is Probe, and the default tolerance of are_near           *)
(* (EPSILON = 1e-5) is Eps.  Input curves are straight segments with       *)
(* integer end points, so pointAt is exact; roots and crossings are        *)
(* rounded to the nearest unit, an error far below the tolerance, as the   *)
(* rounding of a double is.                                                *)
(*                                                                         *)
(* Sequences are 1-based here and 0-based in the source: the source's      *)
(* v[i] is v[i+1] below.                                                   *)
(***************************************************************************)
EXTENDS Integers, Sequences, FiniteSets, TLC

\* Dim2
X == 0
Y == 1

\* the parameter value 1.0 (process_splits(splits, 0, 1)), in units of 1e-7
One == 10000000
\* the probe step 0.01 of SectionSorter::operator()
Probe == 100000
\* EPSILON = 1e-5, the default tolerance of are_near
Eps == 100

\* bounds of the inputs
MaxCoord == 2
MaxSegs == 4
MaxRoots == 2
MaxVerts == 3

----------------------------------------------------------------------------
(* arithmetic helpers *)

Abs(x) == IF x < 0 THEN 0 - x ELSE x

Min(a, b) == IF a <= b THEN a ELSE b

Max(a, b) == IF a <= b THEN b ELSE a

\* n / m rounded to the nearest integer (m # 0): a division of doubles, kept
\* to 1e-7
DivRound(n, m) ==
    LET sn == IF m < 0 THEN 0 - n ELSE n
        sm == Abs(m)
    IN  IF sn >= 0 THEN (2 * sn + sm) \div (2 * sm)
        ELSE 0 - ((2 * (0 - sn) + sm) \div (2 * sm))

Reverse(s) == [k \in 1..Len(s) |-> s[Len(s) + 1 - k]]

RemoveAt(s, k) == [j \in 1..(Len(s) - 1) |-> IF j < k THEN s[j] ELSE s[j + 1]]

InsertAt(s, k, e) ==
    [j \in 1..(Len(s) + 1) |-> IF j < k THEN s[j] ELSE IF j = k THEN e ELSE s[j - 1]]

----------------------------------------------------------------------------
(* are_near, Interval, Rect: 2geom's tolerance tests and boxes *)

are_near(a, b) == (a - b <= Eps) /\ (a - b >= 0 - Eps)

are_near_pt(p, q) == are_near(p[1], q[1]) /\ are_near(p[2], q[2])

\* Interval(a, b).contains(v)
IntervalContains(a, b, v) == Min(a, b) <= v /\ v <= Max(a, b)

\* Interval(a, b).intersects(Interval(c, e))
IntervalIntersects(a, b, c, e) ==
    Min(a, b) <= Max(c, e) /\ Min(c, e) <= Max(a, b)

----------------------------------------------------------------------------
(* The curve store: a curve is a straight segment <<P, Q>> with integer end *)
(* points P, Q (in whole units); ps is a sequence of paths, a path a        *)
(* sequence of curves.                                                      *)

\* CurveIx::get
get(paths, path, ix) == paths[path + 1][ix + 1]

\* Curve::pointAt(t), Curve::operator()(t)
pointAt(c, t) ==
    << c[1][1] * One + (c[2][1] - c[1][1]) * t,
       c[1][2] * One + (c[2][2] - c[1][2]) * t >>

\* Curve::roots(v, dim): the parameters in [0,1] where coordinate dim is v
roots(c, v, dim) ==
    LET dd  == c[2][dim + 1] - c[1][dim + 1]
        num == v - c[1][dim + 1] * One
    IN  IF dd = 0 THEN << >>
        ELSE IF (dd > 0 /\ 0 <= num /\ num <= dd * One)
                \/ (dd < 0 /\ 0 >= num /\ num >= dd * One)
             THEN << DivRound(num, dd) >>
             ELSE << >>

\* derivative()->roots(0, X) followed by derivative()->roots(0, Y): the
\* derivative of a straight segment is constant and has no isolated root
derivRoots(c) == << >>

\* Curve::unitTangentAt(t), kept unnormalised: the direction Q - P
tangent(c) == << c[2][1] - c[1][1], c[2][2] - c[1][2] >>

\* ad[dim] < bd[dim] for the unit vectors of the directions ad and bd
unitLess(ad, bd, dim) ==
    LET la == ad[1] * ad[1] + ad[2] * ad[2]
        lb == bd[1] * bd[1] + bd[2] * bd[2]
        sa == ad[dim + 1] * Abs(ad[dim + 1])
        sb == bd[dim + 1] * Abs(bd[dim + 1])
    IN  IF la = 0 \/ lb = 0 THEN FALSE
        ELSE sa * lb < sb * la

\* mono_intersect(A, Interval(af, at), B, Interval(bf, bt)): the crossing
\* pairs <<ta, tb>> of two monotone pieces; parallel segments do not cross
mono_intersect(A, af, at, B, bf, bt) ==
    LET d1  == tangent(A)
        d2  == tangent(B)
        w   == << B[1][1] - A[1][1], B[1][2] - A[1][2] >>
        det == d1[1] * d2[2] - d1[2] * d2[1]
        nu  == w[1] * d2[2] - w[2] * d2[1]
        nw  == w[1] * d1[2] - w[2] * d1[1]
    IN  IF det = 0 THEN << >>
        ELSE LET ta == DivRound(nu * One, det)
                 tb == DivRound(nw * One, det)
             IN  IF IntervalContains(af, at, ta) /\ IntervalContains(bf, bt, tb)
                 THEN << <<ta, tb>> >>
                 ELSE << >>

----------------------------------------------------------------------------
(* lexo_point and Section *)

lexo_point(a, b, d) ==
    IF d = Y
    THEN a[2] < b[2] \/ (a[2] = b[2] /\ a[1] < b[1])
    ELSE a[1] < b[1] \/ (a[1] = b[1] /\ a[2] < b[2])

\* Section::Section(c, d, cix, fd, td): windings starts empty
Section(c, d, path, ix, fd, td) ==
    LET p0 == pointAt(c, fd)
        p1 == pointAt(c, td)
    IN  IF lexo_point(p1, p0, d)
        THEN [path |-> path, ix |-> ix, f |-> td, t |-> fd, fp |-> p1, tp |-> p0,
              windings |-> << >>]
        ELSE [path |-> path, ix |-> ix, f |-> fd, t |-> td, fp |-> p0, tp |-> p1,
              windings |-> << >>]

\* the assertion of Section::set_to
set_to_assert(s, d) == s.tp[d + 1] >= s.fp[d + 1]

\* Section::set_to(c, d, ti), the assertion apart
set_to(s, c, d, ti) == [s EXCEPT !.t = ti, !.tp = pointAt(c, ti)]

----------------------------------------------------------------------------
(* process_splits, mono_splits, mono_sections, split_section *)

RECURSIVE InsertSorted(_, _)
InsertSorted(s, v) ==
    IF s = << >> THEN << v >>
    ELSE IF v < Head(s) THEN << v >> \o s
    ELSE << Head(s) >> \o InsertSorted(Tail(s), v)

\* std::sort(splits.begin(), splits.end())
RECURSIVE Sort(_)
Sort(s) == IF s = << >> THEN << >> ELSE InsertSorted(Sort(Tail(s)), Head(s))

\* std::unique(first, last, NearPredicate<double>()): an element is dropped
\* when it is near the last element kept
RECURSIVE UniqueFrom(_, _)
UniqueFrom(kept, rest) ==
    IF rest = << >> THEN kept
    ELSE IF are_near(kept[Len(kept)], Head(rest)) THEN UniqueFrom(kept, Tail(rest))
    ELSE UniqueFrom(Append(kept, Head(rest)), Tail(rest))

Unique(s) == IF s = << >> THEN << >> ELSE UniqueFrom(<< Head(s) >>, Tail(s))

\* while(!splits.empty() && splits.front() != f) splits.erase(splits.begin())
RECURSIVE TrimFront(_, _)
TrimFront(s, f) ==
    IF s # << >> /\ Head(s) # f THEN TrimFront(Tail(s), f) ELSE s

\* while(!splits.empty() && splits.back() != t) splits.erase(splits.end() - 1)
RECURSIVE TrimBack(_, _)
TrimBack(s, t) ==
    IF s # << >> /\ s[Len(s)] # t THEN TrimBack(SubSeq(s, 1, Len(s) - 1), t) ELSE s

process_splits(splits, f, t) ==
    LET all == Unique(Sort(Append(Append(splits, f), t)))
        dir == IF f > t THEN Reverse(all) ELSE all
    IN  TrimBack(TrimFront(dir, f), t)

\* mono_splits of a curve whose derivative has the roots rs
mono_splits_of(rs) == process_splits(rs, 0, One)

mono_splits(c) == mono_splits_of(derivRoots(c))

\* the Sections of one curve: for(k = 1; k < splits.size(); k++)
SectionsOfSplits(c, path, ix, splits) ==
    [k \in 1..(IF Len(splits) = 0 THEN 0 ELSE Len(splits) - 1) |->
        Section(c, X, path, ix, splits[k], splits[k + 1])]

RECURSIVE Flatten(_)
Flatten(ss) == IF ss = << >> THEN << >> ELSE Head(ss) \o Flatten(Tail(ss))

\* mono_sections(ps): always oriented along X
mono_sections(paths) ==
    Flatten([i \in 1..Len(paths) |->
        Flatten([j \in 1..Len(paths[i]) |->
            SectionsOfSplits(paths[i][j], i - 1, j - 1, mono_splits(paths[i][j]))])])

\* split_section(s, ps, cuts, d).  ub: cuts[1] is read past the end of cuts;
\* asrt: the assertion of set_to fails.  s is the mutated Section, ret the
\* new ones.
split_section(s, paths, cuts, d) ==
    LET cs == process_splits(cuts, s.f, s.t)
        c  == get(paths, s.path, s.ix)
    IN  IF Len(cs) < 2
        THEN [ub |-> TRUE, asrt |-> FALSE, s |-> s, ret |-> << >>, cuts |-> cs]
        ELSE LET s2 == set_to(s, c, d, cs[2])
             IN  [ub   |-> FALSE,
                  asrt |-> ~set_to_assert(s2, d),
                  s    |-> s2,
                  ret  |-> [k \in 1..(Len(cs) - 2) |->
                               Section(c, d, s.path, s.ix, cs[k + 1], cs[k + 2])],
                  cuts |-> cs]

----------------------------------------------------------------------------
(* The heap of pending Sections: HeapSorter and the std heap algorithms on  *)
(* the first len elements of the vector v                                   *)

\* HeapSorter::operator() with its arguments exchanged
HeapSorterRev(a, b, d) == lexo_point(a.fp, b.fp, d)

\* HeapSorter::operator()
HeapSorter(a, b, d) == lexo_point(b.fp, a.fp, d)

\* std::__push_heap(first, holeIndex, topIndex, value, comp)
RECURSIVE SiftUp(_, _, _, _, _)
SiftUp(v, hole, top, value, d) ==
    IF hole > top /\ HeapSorter(v[((hole - 1) \div 2) + 1], value, d)
    THEN SiftUp([v EXCEPT ![hole + 1] = v[((hole - 1) \div 2) + 1]],
                (hole - 1) \div 2, top, value, d)
    ELSE [v EXCEPT ![hole + 1] = value]

\* std::push_heap(first, first + len, comp)
push_heap(v, len, d) == SiftUp(v, len - 1, 0, v[len], d)

\* the while loop of std::__adjust_heap: the hole moves down to a leaf
RECURSIVE SiftDown(_, _, _, _)
SiftDown(v, child, len, d) ==
    IF child < (len - 1) \div 2
    THEN LET c2 == 2 * (child + 1)
             c  == IF HeapSorter(v[c2 + 1], v[c2], d) THEN c2 - 1 ELSE c2
         IN  SiftDown([v EXCEPT ![child + 1] = v[c + 1]], c, len, d)
    ELSE [v |-> v, child |-> child]

\* std::__adjust_heap(first, holeIndex, len, value, comp)
adjust_heap(v, hole, len, value, d) ==
    LET r == SiftDown(v, hole, len, d)
    IN  IF len % 2 = 0 /\ len >= 2 /\ r.child = (len - 2) \div 2
        THEN LET c == 2 * (r.child + 1) - 1
             IN  SiftUp([r.v EXCEPT ![r.child + 1] = r.v[c + 1]], c, hole, value, d)
        ELSE SiftUp(r.v, r.child, hole, value, d)

\* std::pop_heap(first, first + len, comp), len >= 1: the top goes to
\* position len - 1
pop_heap(v, len, d) ==
    adjust_heap([v EXCEPT ![len] = v[1]], 0, len - 1, v[len], d)

\* std::make_heap(first, first + len, comp)
RECURSIVE MakeHeapFrom(_, _, _, _)
MakeHeapFrom(v, parent, len, d) ==
    LET w == adjust_heap(v, parent, len, v[parent + 1], d)
    IN  IF parent = 0 THEN w ELSE MakeHeapFrom(w, parent - 1, len, d)

make_heap(v, len, d) == IF len < 2 THEN v ELSE MakeHeapFrom(v, (len - 2) \div 2, len, d)

\* push_them(x, it, xs, z) where it = x.begin() + len, the storage being
\* long enough: each new Section is written at it and pushed
RECURSIVE push_them(_, _, _, _)
push_them(v, len, xs, d) ==
    IF xs = << >> THEN [v |-> v, len |-> len]
    ELSE LET w == IF len < Len(v) THEN [v EXCEPT ![len + 1] = Head(xs)]
                  ELSE Append(v, Head(xs))
         IN  push_them(push_heap(w, len + 1, d), len + 1, Tail(xs), d)

----------------------------------------------------------------------------
(* SectionSorter: the order of the active context, dim = 1 - d *)

\* section_root(s, ps, v, d)
section_root(s, paths, v, dim) ==
    LET rs == roots(get(paths, s.path, s.ix), v, dim)
        in == {j \in 1..Len(rs) : IntervalContains(s.f, s.t, rs[j])}
    IN  IF in = {} THEN -1 ELSE rs[CHOOSE j \in in : \A k \in in : j <= k]

\* SectionSorter::section_order(a, at, b, bt)
section_order(paths, dim, a, at, b, bt) ==
    LET ap == pointAt(get(paths, a.path, a.ix), at)
        bp == pointAt(get(paths, b.path, b.ix), bt)
        ta == tangent(get(paths, a.path, a.ix))
        tb == tangent(get(paths, b.path, b.ix))
        ad == IF ta[(1 - dim) + 1] < 0 THEN << 0 - ta[1], 0 - ta[2] >> ELSE ta
        bd == IF tb[(1 - dim) + 1] < 0 THEN << 0 - tb[1], 0 - tb[2] >> ELSE tb
    IN  IF are_near(ap[dim + 1], bp[dim + 1])
        THEN IF a.tp[dim + 1] < ap[dim + 1] /\ b.tp[dim + 1] > ap[dim + 1] THEN TRUE
             ELSE IF a.tp[dim + 1] > ap[dim + 1] /\ b.tp[dim + 1] < ap[dim + 1] THEN FALSE
             ELSE unitLess(ad, bd, dim)
        ELSE ap[dim + 1] < bp[dim + 1]

\* SectionSorter::operator()(a, b) for two distinct objects a, b; the midpoint
\* (a.t + a.f) / 2 is exact in a double and is rounded down here
SectionSorter(paths, dim, a, b) ==
    LET o == 1 - dim
    IN  IF Max(a.fp[dim + 1], a.tp[dim + 1]) <= Min(b.fp[dim + 1], b.tp[dim + 1]) THEN TRUE
        ELSE IF Max(b.fp[dim + 1], b.tp[dim + 1]) <= Min(a.fp[dim + 1], a.tp[dim + 1]) THEN FALSE
        ELSE IF IntervalIntersects(a.fp[o + 1], a.tp[o + 1], b.fp[o + 1], b.tp[o + 1])
        THEN IF are_near(a.fp[o + 1], b.fp[o + 1])
             THEN section_order(paths, dim,
                                a, IF a.f > a.t THEN a.f - Probe ELSE a.f + Probe,
                                b, IF b.f > b.t THEN b.f - Probe ELSE b.f + Probe)
             ELSE IF a.fp[o + 1] < b.fp[o + 1]
             THEN LET r  == section_root(a, paths, b.fp[o + 1], o)
                      ta == IF r = -1 THEN (a.t + a.f) \div 2 ELSE r
                  IN  section_order(paths, dim, a, ta, b, b.f)
             ELSE LET r  == section_root(b, paths, a.fp[o + 1], o)
                      tb == IF r = -1 THEN (b.t + b.f) \div 2 ELSE r
                  IN  section_order(paths, dim, a, a.f, b, tb)
        ELSE lexo_point(a.fp, b.fp, dim)

\* std::lower_bound(context.begin(), context.end(), val, s_sort) on the
\* range [first, first + len): the 0-based insertion index
RECURSIVE lower_bound(_, _, _, _, _, _)
lower_bound(paths, dim, ctx, val, first, len) ==
    IF len <= 0 THEN first
    ELSE LET half == len \div 2
         IN  IF SectionSorter(paths, dim, ctx[first + half + 1], val)
             THEN lower_bound(paths, dim, ctx, val, first + half + 1, len - half - 1)
             ELSE lower_bound(paths, dim, ctx, val, first, half)

----------------------------------------------------------------------------
(* The Vertex registry *)

\* Vertex::Vertex(p)
Vertex(p) == [avg |-> p, enters |-> << >>, exits |-> << >>]

\* Edge::Edge(s, o)
Edge(sec, other) == [section |-> sec, other |-> other]

\* find_vertex scanning on to the last Vertex near p
find_vertex_ix_last(vs, p) ==
    LET near == {k \in 1..Len(vs) : are_near_pt(vs[k].avg, p)}
    IN  IF near = {} THEN Len(vs) ELSE (CHOOSE k \in near : \A j \in near : k >= j) - 1

\* the index find_vertex returns: the first Vertex near p, else the size
find_vertex_ix(vs, p) ==
    LET near == {k \in 1..Len(vs) : are_near_pt(vs[k].avg, p)}
    IN  IF near = {} THEN Len(vs) ELSE (CHOOSE k \in near : \A j \in near : k <= j) - 1

\* a find_vertex that registers p without looking it up
find_vertex_vs_always(vs, p) == Append(vs, Vertex(p))

\* the registry find_vertex leaves
find_vertex_vs(vs, p) ==
    IF find_vertex_ix(vs, p) = Len(vs) THEN Append(vs, Vertex(p)) ELSE vs

----------------------------------------------------------------------------
(* The state of sweep_graph *)

VARIABLES
    ps,          \* the input paths
    d,           \* the sweep axis
    monos,       \* the storage of the vector monos
    msize,       \* monos.size()
    monos_end,   \* monos_end - monos.begin(): the number of pending Sections
    s,           \* s - monos.begin(): the position of the candidate
    lim,         \* the sweep position
    context,     \* the active context
    vix,         \* the start vertex of each context member
    vertices,    \* the output vertices
    sections,    \* the output sections
    windings,    \* the temporary windings vector
    i,           \* the loop index of the scan, and of the neighbour loop
    context_ix,  \* where the candidate was inserted
    this_splits, \* the cuts collected for the candidate
    pc,          \* the position in sweep_graph
    ub,          \* the undefined behaviour executed, if any
    call,        \* the arguments of a function called on its own
    ret          \* its result

sweepVars == << ps, d, monos, msize, monos_end, s, lim, context, vix, vertices,
                sections, windings, i, context_ix, this_splits, pc, ub >>

vars == << ps, d, monos, msize, monos_end, s, lim, context, vix, vertices,
           sections, windings, i, context_ix, this_splits, pc, ub, call, ret >>

----------------------------------------------------------------------------
(* The inputs *)

Coords == 0..MaxCoord

Pts == Coords \X Coords

\* every segment of the grid, the degenerate ones included
Segs == Pts \X Pts

\* the segments that start on the left edge of the grid
LeftSegs == { a \in Segs : a[1][1] = 0 }

\* one path of one segment, or two of them, the first starting on the left edge
PairScenes ==
    { << << a >> >> : a \in Segs }
        \cup { << << a >>, << b >> >> : a \in LeftSegs, b \in Segs }

\* one closed path of three segments
TriScenes ==
    { << << <<p, q>>, <<q, r>>, <<r, p>> >> >> : p \in Pts, q \in Pts, r \in Pts }

\* the point k (k >= 1) of a polyline that runs from the left edge of the
\* grid to its right edge and back, through the heights hs
ZigPoint(hs, k) == << IF k % 2 = 1 THEN 0 ELSE MaxCoord, hs[k] >>

ZigSegs(hs) == [k \in 1..(Len(hs) - 1) |-> << ZigPoint(hs, k), ZigPoint(hs, k + 1) >>]

\* such a polyline of 3..MaxSegs segments that starts at the origin, as one
\* path or as one path per segment
ZigScenes ==
    UNION { { << ZigSegs(hs) >>, [k \in 1..(Len(hs) - 1) |-> << ZigSegs(hs)[k] >>] } :
            hs \in UNION { { h \in [1..(n + 1) -> Coords] : h[1] = 0 } : n \in 3..MaxSegs } }

\* segment n of the fan: from a point of the left edge to a point of the
\* next column or of the right edge
FanCount == (MaxCoord + 1) * 2 * (MaxCoord + 1)

FanSeg(n) ==
    << << 0, n \div (2 * (MaxCoord + 1)) >>,
       << IF (n \div (MaxCoord + 1)) % 2 = 0 THEN 1 ELSE MaxCoord, n % (MaxCoord + 1) >> >>

\* three different segments of the fan, one path each
FanScenes ==
    { << << FanSeg(t[1]) >>, << FanSeg(t[2]) >>, << FanSeg(t[3]) >> >> :
        t \in { u \in (0..(FanCount - 1)) \X (0..(FanCount - 1)) \X (0..(FanCount - 1)) :
                   u[1] < u[2] /\ u[2] < u[3] } }

Scenes == { << >> } \cup PairScenes \cup TriScenes \cup ZigScenes \cup FanScenes

----------------------------------------------------------------------------
(* sweep_graph: the state after lines 269-292, then the loop *)

NoCall == [fn |-> "none"]

InitSweep(paths, dim) ==
    /\ ps = paths
    /\ d = dim
    /\ monos = make_heap(mono_sections(paths), Len(mono_sections(paths)), dim)
    /\ msize = Len(mono_sections(paths))
    /\ monos_end = Len(mono_sections(paths))
    /\ s = -1
    /\ lim = 0
    /\ context = << >>
    /\ vix = << >>
    /\ vertices = << >>
    /\ sections = << >>
    /\ windings = [k \in 1..Len(paths) |-> 0]
    /\ i = 0
    /\ context_ix = 0
    /\ this_splits = << >>
    /\ pc = "pop"
    /\ ub = "none"
    /\ call = NoCall
    /\ ret = NoCall

\* sweep_graph(ps, d): any input of the family, swept along either axis
Init == \E paths \in Scenes, dim \in {X, Y} : InitSweep(paths, dim)

\* lines 295-301: the candidate is popped and sets lim; with nothing pending
\* lim is 0.0 / 1.0
Pop ==
    /\ pc = "pop"
    /\ IF monos_end # 0
       THEN /\ monos' = pop_heap(monos, monos_end, d)
            /\ monos_end' = monos_end - 1
            /\ s' = monos_end - 1
            /\ lim' = pop_heap(monos, monos_end, d)[monos_end].fp[d + 1]
       ELSE /\ lim' = 0
            /\ UNCHANGED << monos, monos_end, s >>
    /\ i' = Len(context) - 1
    /\ pc' = "scan"
    /\ UNCHANGED << ps, d, msize, context, vix, vertices, sections, windings,
                    context_ix, this_splits, ub, call, ret >>

\* line 304: context[i] is finished
Finished(k) ==
    context[k + 1].tp[X + 1] < lim \/ are_near(context[k + 1].tp[X + 1], lim)

\* lines 307-313: the windings of context[i], from the Sections j < i.
\* oob: windings[j] was written with j past the end of the vector
RECURSIVE WindingsLoop(_, _, _, _)
WindingsLoop(ctx, w, j, n) ==
    IF j >= n THEN w
    ELSE LET c  == ctx[j + 1]
             k  == c.path
             v0 == IF k >= Len(w.v)
                   THEN w.v \o [x \in 1..(k + 1 - Len(w.v)) |-> 0]
                   ELSE w.v
             v1 == IF c.f < c.t THEN [v0 EXCEPT ![k + 1] = @ + 1] ELSE v0
             v2 == IF c.f > c.t /\ j < Len(v1) THEN [v1 EXCEPT ![j + 1] = @ - 1] ELSE v1
         IN  IF c.fp[X + 1] = c.tp[X + 1]
             THEN WindingsLoop(ctx, [v |-> v0, oob |-> w.oob], j + 1, n)
             ELSE WindingsLoop(ctx, [v |-> v2,
                                     oob |-> w.oob \/ (c.f > c.t /\ j >= Len(v1))],
                               j + 1, n)

\* lines 306-313
ComputeWindings(ctx, w, n) ==
    WindingsLoop(ctx, [v |-> [k \in 1..Len(w) |-> 0], oob |-> FALSE], 0, n)

\* lines 303-304: context[i] is not finished
ScanSkip ==
    /\ pc = "scan"
    /\ i >= 0
    /\ ~Finished(i)
    /\ i' = i - 1
    /\ UNCHANGED << ps, d, monos, msize, monos_end, s, lim, context, vix, vertices,
                    sections, windings, context_ix, this_splits, pc, ub, call, ret >>

\* lines 326-327 with enters and exits exchanged
AddEdgesSwapped(vs, from, to, sec) ==
    LET v1 == [vs EXCEPT ![from + 1].enters = Append(@, Edge(sec, to))]
    IN  [v1 EXCEPT ![to + 1].exits = Append(@, Edge(sec, from))]

\* lines 326-327 with the incoming Edge recorded at the start Vertex too
AddEdgesAtStart(vs, from, to, sec) ==
    LET v1 == [vs EXCEPT ![from + 1].exits = Append(@, Edge(sec, to))]
    IN  [v1 EXCEPT ![from + 1].enters = Append(@, Edge(sec, from))]

\* lines 326-327 with sections.size() for sections.size()-1
AddEdgesNextSection(vs, from, to, sec) ==
    LET v1 == [vs EXCEPT ![from + 1].exits = Append(@, Edge(sec + 1, to))]
    IN  [v1 EXCEPT ![to + 1].enters = Append(@, Edge(sec + 1, from))]

\* the Vertex list after lines 326-327
AddEdges(vs, from, to, sec) ==
    LET v1 == [vs EXCEPT ![from + 1].exits = Append(@, Edge(sec, to))]
    IN  [v1 EXCEPT ![to + 1].enters = Append(@, Edge(sec, from))]

\* lines 305-331 without the test of line 320: a Section that ends at its own
\* start Vertex goes to the output too
ScanFinishTiny ==
    /\ pc = "scan"
    /\ i >= 0
    /\ Finished(i)
    /\ LET w    == ComputeWindings(context, windings, i)
           r    == [context[i + 1] EXCEPT !.windings = w.v]
           vert == find_vertex_ix(vertices, r.tp)
           vs   == find_vertex_vs(vertices, r.tp)
       IN  /\ windings' = w.v
           /\ ub' = IF w.oob THEN "windings" ELSE ub
           /\ \/ /\ sections' = Append(sections, r)
                 /\ vertices' = AddEdges(vs, vix[i + 1], vert, Len(sections))
                 /\ context' = RemoveAt(context, i + 1)
                 /\ vix' = RemoveAt(vix, i + 1)
                 /\ i' = i - 1
                 /\ pc' = pc
              \/ /\ w.oob
                 /\ pc' = "crashed"
                 /\ UNCHANGED << sections, vertices, context, vix, i >>
    /\ UNCHANGED << ps, d, monos, msize, monos_end, s, lim, context_ix,
                    this_splits, call, ret >>

\* lines 305-331: context[i] is finished and goes to the output.  A write of
\* windings[j] past the end leaves the vector as it is, or ends the program.
ScanFinish ==
    /\ pc = "scan"
    /\ i >= 0
    /\ Finished(i)
    /\ find_vertex_ix(vertices, context[i + 1].tp) # vix[i + 1]
    /\ LET w    == ComputeWindings(context, windings, i)
           r    == [context[i + 1] EXCEPT !.windings = w.v]
           vert == find_vertex_ix(vertices, r.tp)
           vs   == find_vertex_vs(vertices, r.tp)
       IN  /\ windings' = w.v
           /\ ub' = IF w.oob THEN "windings" ELSE ub
           /\ \/ /\ sections' = Append(sections, r)
                 /\ vertices' = AddEdges(vs, vix[i + 1], vert, Len(sections))
                 /\ context' = RemoveAt(context, i + 1)
                 /\ vix' = RemoveAt(vix, i + 1)
                 /\ i' = i - 1
                 /\ pc' = pc
              \/ /\ w.oob
                 /\ pc' = "crashed"
                 /\ UNCHANGED << sections, vertices, context, vix, i >>
    /\ UNCHANGED << ps, d, monos, msize, monos_end, s, lim, context_ix,
                    this_splits, call, ret >>

\* lines 305-320: context[i] is finished and ends at its own start Vertex:
\* "continue", so it stays in the context
ScanTiny ==
    /\ pc = "scan"
    /\ i >= 0
    /\ Finished(i)
    /\ find_vertex_ix(vertices, context[i + 1].tp) = vix[i + 1]
    /\ LET w == ComputeWindings(context, windings, i)
       IN  /\ windings' = w.v
           /\ ub' = IF w.oob THEN "windings" ELSE ub
           /\ \/ /\ i' = i - 1
                 /\ pc' = pc
              \/ /\ w.oob
                 /\ pc' = "crashed"
                 /\ i' = i
    /\ UNCHANGED << ps, d, monos, msize, monos_end, s, lim, context, vix, vertices,
                    sections, context_ix, this_splits, call, ret >>

\* line 335: break
Break ==
    /\ pc = "scan"
    /\ i < 0
    /\ monos_end = 0
    /\ pc' = "done"
    /\ UNCHANGED << ps, d, monos, msize, monos_end, s, lim, context, vix, vertices,
                    sections, windings, i, context_ix, this_splits, ub, call, ret >>
\* lines 337-340 with the start Vertex pushed at the back of vix
InsertVixBack ==
    /\ pc = "scan"
    /\ i < 0
    /\ monos_end # 0
    /\ LET cand == monos[s + 1]
           ix   == lower_bound(ps, 1 - d, context, cand, 0, Len(context))
       IN  /\ context' = InsertAt(context, ix + 1, cand)
           /\ vix' = Append(vix, find_vertex_ix(vertices, cand.fp))
           /\ vertices' = find_vertex_vs(vertices, cand.fp)
           /\ context_ix' = ix
    /\ this_splits' = << >>
    /\ i' = 0
    /\ pc' = "intersect"
    /\ UNCHANGED << ps, d, monos, msize, monos_end, s, lim, sections, windings,
                    ub, call, ret >>

\* lines 338-345: the candidate *s enters the context
Insert ==
    /\ pc = "scan"
    /\ i < 0
    /\ monos_end # 0
    /\ LET cand == monos[s + 1]
           ix   == lower_bound(ps, 1 - d, context, cand, 0, Len(context))
       IN  /\ context' = InsertAt(context, ix + 1, cand)
           /\ vix' = InsertAt(vix, ix + 1, find_vertex_ix(vertices, cand.fp))
           /\ vertices' = find_vertex_vs(vertices, cand.fp)
           /\ context_ix' = ix
    /\ this_splits' = << >>
    /\ i' = 0
    /\ pc' = "intersect"
    /\ UNCHANGED << ps, d, monos, msize, monos_end, s, lim, sections, windings,
                    ub, call, ret >>


\* line 342: si, from the candidate's end points
si_intersects(o) ==
    IntervalIntersects(context[context_ix + 1].fp[(1 - d) + 1],
                       context[context_ix + 1].tp[(1 - d) + 1],
                       o.fp[(1 - d) + 1], o.tp[(1 - d) + 1])

\* lines 346-349: context[i] is the candidate or does not overlap it
IntersectSkip ==
    /\ pc = "intersect"
    /\ i < Len(context)
    /\ i = context_ix \/ ~si_intersects(context[i + 1])
    /\ i' = i + 1
    /\ UNCHANGED << ps, d, monos, msize, monos_end, s, lim, context, vix, vertices,
                    sections, windings, context_ix, this_splits, pc, ub, call, ret >>

\* what a call of split_section followed by push_them leaves, sp being the
\* result of split_section.  The program ends when cuts[1] is read past the
\* end of cuts.  When the assertion of set_to fails the program aborts, or,
\* built without assertions, goes on.  A Section written past the end of
\* monos lands there, or ends the program.
AfterSplit(sp, k, nextpc, nexti) ==
    IF sp.ub
    THEN /\ ub' = "cuts"
         /\ pc' = "crashed"
         /\ UNCHANGED << context, monos, monos_end, i >>
    ELSE \/ /\ ub' = IF monos_end + Len(sp.ret) > msize THEN "push_them" ELSE ub
            /\ context' = [context EXCEPT ![k + 1] = sp.s]
            /\ monos' = push_them(monos, monos_end, sp.ret, d).v
            /\ monos_end' = push_them(monos, monos_end, sp.ret, d).len
            /\ i' = nexti
            /\ pc' = nextpc
         \/ /\ sp.asrt
            /\ pc' = "aborted"
            /\ UNCHANGED << context, monos, monos_end, i, ub >>
         \/ /\ ~sp.asrt
            /\ monos_end + Len(sp.ret) > msize
            /\ ub' = "push_them"
            /\ pc' = "crashed"
            /\ UNCHANGED << context, monos, monos_end, i >>

\* lines 349-359: context[i] overlaps the candidate: it is intersected with
\* *s, whatever s points to by now, and split
IntersectSplit ==
    /\ pc = "intersect"
    /\ i < Len(context)
    /\ i # context_ix
    /\ si_intersects(context[i + 1])
    /\ LET cur == monos[s + 1]
           o   == context[i + 1]
           xs  == mono_intersect(get(ps, cur.path, cur.ix), cur.f, cur.t,
                                 get(ps, o.path, o.ix), o.f, o.t)
       IN  /\ this_splits' = this_splits \o [k \in 1..Len(xs) |-> xs[k][1]]
           /\ AfterSplit(split_section(o, ps, [k \in 1..Len(xs) |-> xs[k][2]], d),
                         i, pc, i + 1)
    /\ UNCHANGED << ps, d, msize, s, lim, vix, vertices, sections, windings,
                    context_ix, call, ret >>

\* line 361: the candidate is split at the cuts collected
SplitThis ==
    /\ pc = "intersect"
    /\ i >= Len(context)
    /\ AfterSplit(split_section(context[context_ix + 1], ps, this_splits, d),
                  context_ix, "pop", i)
    /\ UNCHANGED << ps, d, msize, s, lim, vix, vertices, sections, windings,
                    context_ix, this_splits, call, ret >>

Next ==
    \/ Pop
    \/ ScanSkip
    \/ ScanFinish
    \/ ScanTiny
    \/ Break
    \/ Insert
    \/ IntersectSkip
    \/ IntersectSplit
    \/ SplitThis

Spec == Init /\ [][Next]_vars

----------------------------------------------------------------------------
(* sweep_graph called twice on the same input, each call with its own state *)

\* the positions at which a run of sweep_graph has ended
Final == { "done", "crashed", "aborted" }

\* the first call has ended: what it returned is recorded and the second
\* call starts from lines 269-292 on the same paths and axis
Rerun ==
    /\ pc \in Final
    /\ call = NoCall
    /\ call' = [fn |-> "sweep_graph"]
    /\ ret' = [fn |-> "sweep_graph", pc |-> pc, vertices |-> vertices,
               sections |-> sections]
    /\ monos' = make_heap(mono_sections(ps), Len(mono_sections(ps)), d)
    /\ monos_end' = Len(mono_sections(ps))
    /\ s' = -1
    /\ lim' = 0
    /\ context' = << >>
    /\ vix' = << >>
    /\ vertices' = << >>
    /\ sections' = << >>
    /\ windings' = [k \in 1..Len(ps) |-> 0]
    /\ i' = 0
    /\ context_ix' = 0
    /\ this_splits' = << >>
    /\ pc' = "pop"
    /\ ub' = "none"
    /\ UNCHANGED << ps, d, msize >>

NextTwice == Next \/ Rerun

TwiceSpec == Init /\ [][NextTwice]_vars

----------------------------------------------------------------------------
(* sweep_graph called on an input and then, along the other axis, on the    *)
(* same input with the coordinates of every point exchanged                 *)

SwapPt(p) == << p[2], p[1] >>

SwapPaths(paths) ==
    [p \in 1..Len(paths) |->
        [j \in 1..Len(paths[p]) |->
            << SwapPt(paths[p][j][1]), SwapPt(paths[p][j][2]) >>]]

\* the first call has ended: what it returned is recorded and the second
\* call starts from lines 269-292 on the mirrored paths and the other axis
RerunSwapped ==
    /\ pc \in Final
    /\ call = NoCall
    /\ call' = [fn |-> "sweep_graph_swapped"]
    /\ ret' = [fn |-> "sweep_graph_swapped", pc |-> pc, vertices |-> vertices,
               sections |-> sections]
    /\ ps' = SwapPaths(ps)
    /\ d' = 1 - d
    /\ monos' = make_heap(mono_sections(SwapPaths(ps)),
                          Len(mono_sections(SwapPaths(ps))), 1 - d)
    /\ msize' = Len(mono_sections(SwapPaths(ps)))
    /\ monos_end' = Len(mono_sections(SwapPaths(ps)))
    /\ s' = -1
    /\ lim' = 0
    /\ context' = << >>
    /\ vix' = << >>
    /\ vertices' = << >>
    /\ sections' = << >>
    /\ windings' = [k \in 1..Len(ps) |-> 0]
    /\ i' = 0
    /\ context_ix' = 0
    /\ this_splits' = << >>
    /\ pc' = "pop"
    /\ ub' = "none"

NextSwapped == Next \/ RerunSwapped

SwappedSpec == Init /\ [][NextSwapped]_vars

----------------------------------------------------------------------------
(* sweep_graph on a curve with non-finite coordinates.  A coordinate is a   *)
(* double: a finite value, an infinity or a NaN, with the arithmetic and    *)
(* comparisons of IEEE 754.                                                 *)

Fin(n) == [k |-> "fin", v |-> n]

PInf == [k |-> "inf", v |-> 1]

NInf == [k |-> "inf", v |-> -1]

NaN == [k |-> "nan", v |-> 0]

\* a * t for a parameter t >= 0
ExtTimes(a, t) ==
    IF a.k = "fin" THEN Fin(a.v * t)
    ELSE IF a.k = "inf" /\ t # 0 THEN a
    ELSE NaN

\* a + b
ExtPlus(a, b) ==
    IF a.k = "nan" \/ b.k = "nan" THEN NaN
    ELSE IF a.k = "inf" /\ b.k = "inf" THEN (IF a.v = b.v THEN a ELSE NaN)
    ELSE IF a.k = "inf" THEN a
    ELSE IF b.k = "inf" THEN b
    ELSE Fin(a.v + b.v)

\* a < b
ExtLess(a, b) ==
    IF a.k = "nan" \/ b.k = "nan" THEN FALSE
    ELSE IF a.k = "inf" THEN a.v = -1 /\ ~(b.k = "inf" /\ b.v = -1)
    ELSE IF b.k = "inf" THEN b.v = 1
    ELSE a.v < b.v

\* a == b
ExtEq(a, b) == a.k # "nan" /\ b.k # "nan" /\ a = b

\* Curve::pointAt(t) of a straight segment: (1 - t) * P + t * Q
pointAtExt(c, t) ==
    << ExtPlus(ExtTimes(c[1][1], One - t), ExtTimes(c[2][1], t)),
       ExtPlus(ExtTimes(c[1][2], One - t), ExtTimes(c[2][2], t)) >>

\* lexo_point on doubles
lexo_pointExt(a, b, dim) ==
    IF dim = Y
    THEN ExtLess(a[2], b[2]) \/ (ExtEq(a[2], b[2]) /\ ExtLess(a[1], b[1]))
    ELSE ExtLess(a[1], b[1]) \/ (ExtEq(a[1], b[1]) /\ ExtLess(a[2], b[2]))

\* Section::Section on doubles
SectionExt(c, dim, path, ix, fd, td) ==
    LET p0 == pointAtExt(c, fd)
        p1 == pointAtExt(c, td)
    IN  IF lexo_pointExt(p1, p0, dim)
        THEN [path |-> path, ix |-> ix, f |-> td, t |-> fd, fp |-> p1, tp |-> p0,
              windings |-> << >>]
        ELSE [path |-> path, ix |-> ix, f |-> fd, t |-> td, fp |-> p0, tp |-> p1,
              windings |-> << >>]

\* mono_sections of one path of one curve
mono_sectionsExt(paths) ==
    [k \in 1..(Len(mono_splits(paths[1][1])) - 1) |->
        SectionExt(paths[1][1], X, 0, 0,
                   mono_splits(paths[1][1])[k], mono_splits(paths[1][1])[k + 1])]

\* a coordinate is 0, 1, an infinity or a NaN
ExtCoords == { Fin(0), Fin(1), PInf, NInf, NaN }

ExtPts == ExtCoords \X ExtCoords

\* some coordinate of some curve is not finite
HasNonFinite(paths) ==
    \E p \in 1..Len(paths) : \E j \in 1..Len(paths[p]) :
        \E e \in 1..2 : \E c \in 1..2 : paths[p][j][e][c].k # "fin"

\* sweep_graph is entered with one path of one curve
InitNonFinite ==
    /\ \E p \in ExtPts, q \in ExtPts : ps = << << << p, q >> >> >>
    /\ d \in {X, Y}
    /\ monos = << >>
    /\ msize = 0
    /\ monos_end = 0
    /\ s = -1
    /\ lim = 0
    /\ context = << >>
    /\ vix = << >>
    /\ vertices = << >>
    /\ sections = << >>
    /\ windings = << >>
    /\ i = 0
    /\ context_ix = 0
    /\ this_splits = << >>
    /\ pc = "entry"
    /\ ub = "none"
    /\ call = NoCall
    /\ ret = NoCall

\* lines 269-292: no test of the coordinates; a heap of one Section needs no
\* comparison
EnterNonFinite ==
    /\ pc = "entry"
    /\ monos' = mono_sectionsExt(ps)
    /\ msize' = Len(mono_sectionsExt(ps))
    /\ monos_end' = Len(mono_sectionsExt(ps))
    /\ windings' = [k \in 1..Len(ps) |-> 0]
    /\ pc' = "pop"
    /\ UNCHANGED << ps, d, s, lim, context, vix, vertices, sections, i, context_ix,
                    this_splits, ub, call, ret >>

\* lines 295-301 with one pending Section: lim is its leading coordinate
PopNonFinite ==
    /\ pc = "pop"
    /\ monos_end = 1
    /\ monos_end' = 0
    /\ s' = 0
    /\ lim' = monos[1].fp[d + 1]
    /\ i' = Len(context) - 1
    /\ pc' = "scan"
    /\ UNCHANGED << ps, d, monos, msize, context, vix, vertices, sections, windings,
                    context_ix, this_splits, ub, call, ret >>

NextNonFinite == EnterNonFinite \/ PopNonFinite \/ Break

NonFiniteSpec == InitNonFinite /\ [][NextNonFinite]_vars

----------------------------------------------------------------------------
(* mono_splits and process_splits called on their own *)

\* the sweep is not running
Idle ==
    /\ ps = << >>
    /\ d = X
    /\ monos = << >>
    /\ msize = 0
    /\ monos_end = 0
    /\ s = -1
    /\ lim = 0
    /\ context = << >>
    /\ vix = << >>
    /\ vertices = << >>
    /\ sections = << >>
    /\ windings = << >>
    /\ i = 0
    /\ context_ix = 0
    /\ this_splits = << >>
    /\ pc = "idle"
    /\ ub = "none"

\* parameter values: the ends of [0,1], values within and just beyond the
\* tolerance of them, and values inside
ParamVals ==
    { 0, Eps \div 2, Eps, 2 * Eps + 1, One \div 4, One \div 2, (One \div 2) + Eps,
      One - (2 * Eps + 1), One - Eps, One - (Eps \div 2), One }

\* the sequences of at most MaxRoots parameter values
RawSplits == UNION { [1..n -> ParamVals] : n \in 0..MaxRoots }

InitSplits ==
    /\ Idle
    /\ call = NoCall
    /\ ret = NoCall

\* mono_splits(c) for a curve c whose derivative has the roots rs
CallMonoSplits ==
    \E rs \in RawSplits :
        /\ call = NoCall
        /\ call' = [fn |-> "mono_splits", splits |-> rs, f |-> 0, t |-> One]
        /\ ret' = [fn |-> "mono_splits", out |-> mono_splits_of(rs)]
        /\ UNCHANGED sweepVars

\* process_splits(splits, f, t) for the ends f # t of a Section
CallProcessSplits ==
    \E raw \in RawSplits, f \in {0, One \div 4, One}, t \in {0, One \div 2, One} :
        /\ f # t
        /\ call = NoCall
        /\ call' = [fn |-> "process_splits", splits |-> raw, f |-> f, t |-> t]
        /\ ret' = [fn |-> "process_splits", out |-> process_splits(raw, f, t)]
        /\ UNCHANGED sweepVars

NextSplits == CallMonoSplits \/ CallProcessSplits

SplitsSpec == InitSplits /\ [][NextSplits]_vars

----------------------------------------------------------------------------
(* split_section called on its own *)

\* the curves split: rising, falling, vertical and horizontal segments
SplitCurves ==
    { << <<0, 0>>, <<2, 1>> >>, << <<2, 1>>, <<0, 0>> >>,
      << <<0, 2>>, <<0, 0>> >>, << <<0, 1>>, <<2, 1>> >> }

\* the ends of the Section that is split
SplitEnds == { 0, One \div 4, One \div 2, One }

\* what the read of cuts[1] past the end of cuts may give: a value left in
\* the storage of cuts (a raw cut or an end of the Section), or any other
\* value
Garbage(cuts, sec) ==
    { cuts[k] : k \in 1..Len(cuts) } \cup { sec.f, sec.t, 2 * One }

InitSplitSection ==
    /\ \E c \in SplitCurves : ps = << << c >> >>
    /\ d \in {X, Y}
    /\ monos = << >>
    /\ msize = 0
    /\ monos_end = 0
    /\ s = -1
    /\ lim = 0
    /\ context = << >>
    /\ vix = << >>
    /\ vertices = << >>
    /\ sections = << >>
    /\ windings = << >>
    /\ i = 0
    /\ context_ix = 0
    /\ this_splits = << >>
    /\ pc = "idle"
    /\ ub = "none"
    /\ call = NoCall
    /\ ret = NoCall

\* split_section(sec, ps, cuts, d) for a Section sec of the curve, built
\* along d, and any raw cuts.  When process_splits leaves cuts empty the read
\* of cuts[1] ends the program or gives some value, and no new Section is
\* made; when the assertion of set_to fails the program aborts or goes on.
CallSplitSection ==
    \E f \in SplitEnds, t \in SplitEnds, cuts \in RawSplits :
        LET sec == Section(get(ps, 0, 0), d, 0, 0, f, t)
            sp  == split_section(sec, ps, cuts, d)
        IN  /\ f # t
            /\ call = NoCall
            /\ call' = [fn |-> "split_section", s |-> sec, cuts |-> cuts]
            /\ IF sp.ub
               THEN /\ ub' = "cuts"
                    /\ \/ ret' = [fn |-> "split_section", ended |-> "crashed",
                                  s |-> sec, ret |-> << >>]
                       \/ \E g \in Garbage(cuts, sec) :
                              ret' = [fn |-> "split_section", ended |-> "returned",
                                      s |-> set_to(sec, get(ps, 0, 0), d, g),
                                      ret |-> << >>]
               ELSE /\ ub' = ub
                    /\ \/ ret' = [fn |-> "split_section", ended |-> "returned",
                                  s |-> sp.s, ret |-> sp.ret]
                       \/ /\ sp.asrt
                          /\ ret' = [fn |-> "split_section", ended |-> "aborted",
                                     s |-> sec, ret |-> << >>]
            /\ UNCHANGED << ps, d, monos, msize, monos_end, s, lim, context, vix,
                            vertices, sections, windings, i, context_ix,
                            this_splits, pc >>

NextSplitSection == CallSplitSection

SplitSectionSpec == InitSplitSection /\ [][NextSplitSection]_vars

----------------------------------------------------------------------------
(* find_vertex called on its own, on the registries it builds *)

\* points within and just beyond the tolerance of each other
NearCoords == { 0, Eps, 2 * Eps, 3 * Eps + 1 }

NearPts == NearCoords \X { 0, Eps }

InitVertex ==
    /\ Idle
    /\ call = NoCall
    /\ ret = NoCall

\* find_vertex(vertices, p)
CallFindVertex ==
    \E p \in NearPts :
        /\ find_vertex_ix(vertices, p) < MaxVerts
        /\ call' = [fn |-> "find_vertex", vs |-> vertices, p |-> p]
        /\ ret' = [fn |-> "find_vertex", ix |-> find_vertex_ix(vertices, p)]
        /\ vertices' = find_vertex_vs(vertices, p)
        /\ UNCHANGED << ps, d, monos, msize, monos_end, s, lim, context, vix,
                        sections, windings, i, context_ix, this_splits, pc, ub >>

\* lines 326-327 on two Vertices of the registry: the first Section of the
\* output runs between them
CallAddEdges ==
    \E from \in 0..(Len(vertices) - 1), to \in 0..(Len(vertices) - 1) :
        /\ from # to
        /\ \A k \in 1..Len(vertices) : vertices[k].exits = << >>
        /\ vertices' = AddEdges(vertices, from, to, 0)
        /\ call' = [fn |-> "add_edges"]
        /\ ret' = [fn |-> "add_edges"]
        /\ UNCHANGED << ps, d, monos, msize, monos_end, s, lim, context, vix,
                        sections, windings, i, context_ix, this_splits, pc, ub >>

NextVertex == CallFindVertex \/ CallAddEdges

VertexSpec == InitVertex /\ [][NextVertex]_vars

----------------------------------------------------------------------------
(* circulator over a random-access range: positions are indices, the range  *)
(* is [_first, _last)                                                       *)

\* the longest range and the largest advance
MaxRange == 3

MaxAdvance == 7

\* circulator(first, last, pos)
circulator(first, last, pos) == [first |-> first, last |-> last, pos |-> pos]

\* circulator::_offset(n): -offset / range truncates, -offset being positive
offset_(c, n) ==
    LET range  == c.last - c.first
        offset == c.pos - c.first + n
    IN  c.first + (IF offset < 0
                   THEN offset + (((0 - offset) \div range) + 1) * range
                   ELSE IF offset >= range THEN offset % range ELSE offset)

\* a circulator over a non-empty range, at a position of the range
InitCirculator ==
    /\ Idle
    /\ call = NoCall
    /\ \E first \in 0..1, r \in 1..MaxRange : \E p \in 0..(r - 1) :
           ret = [fn |-> "circulator", ended |-> "returned",
                  self |-> circulator(first, first + r, first + p),
                  out |-> first + p]

\* an operation on the circulator ret.self that sets _pos to newpos and
\* returns, by value or by reference, the position out
Operation(fn, n, newpos, out) ==
    /\ call' = [fn |-> fn, self |-> ret.self, n |-> n]
    /\ ret' = [fn |-> fn, ended |-> "returned",
               self |-> [ret.self EXCEPT !.pos = newpos], out |-> out]
    /\ UNCHANGED sweepVars

\* operator+=(n)
OperatorPlusAssign ==
    \E n \in (0 - MaxAdvance)..MaxAdvance :
        /\ ret.ended = "returned"
        /\ Operation("+=", n, offset_(ret.self, n), offset_(ret.self, n))

\* operator+(n): a new circulator at _offset(n)
OperatorPlus ==
    \E n \in (0 - MaxAdvance)..MaxAdvance :
        /\ ret.ended = "returned"
        /\ Operation("+", n, ret.self.pos, offset_(ret.self, n))

\* operator-=(n)
OperatorMinusAssign ==
    \E n \in (0 - MaxAdvance)..MaxAdvance :
        /\ ret.ended = "returned"
        /\ Operation("-=", n, offset_(ret.self, 0 - n), offset_(ret.self, 0 - n))

\* operator-(n): a new circulator at _offset(-n)
OperatorMinus ==
    \E n \in (0 - MaxAdvance)..MaxAdvance :
        /\ ret.ended = "returned"
        /\ Operation("-", n, ret.self.pos, offset_(ret.self, 0 - n))

\* operator[](n): *_offset(n); at _last there is no element to refer to and
\* the program ends, or goes on with whatever is stored there
OperatorIndex ==
    \E n \in (0 - MaxAdvance)..MaxAdvance :
        /\ ret.ended = "returned"
        /\ call' = [fn |-> "[]", self |-> ret.self, n |-> n]
        /\ \/ ret' = [fn |-> "[]", ended |-> "returned", self |-> ret.self,
                       out |-> offset_(ret.self, n)]
           \/ /\ offset_(ret.self, n) = ret.self.last
              /\ ret' = [fn |-> "[]", ended |-> "crashed", self |-> ret.self,
                         out |-> offset_(ret.self, n)]
        /\ UNCHANGED sweepVars

NextCirculator ==
    \/ OperatorPlusAssign
    \/ OperatorPlus
    \/ OperatorMinusAssign
    \/ OperatorMinus
    \/ OperatorIndex

CirculatorSpec == InitCirculator /\ [][NextCirculator]_vars

----------------------------------------------------------------------------
(* The claims *)

\* the Sections pending in the heap
Pending == { monos[k] : k \in 1..monos_end }

\* every Section the sweep holds: pending, active or finished
AllSections ==
    Pending \cup { context[k] : k \in 1..Len(context) }
            \cup { sections[k] : k \in 1..Len(sections) }

\* C1: sweep_graph returns only in state done: the pending queue and the
\* active context are both empty when it returns, every Section that entered
\* the context having been emitted or discarded.
C1_ReturnsDone == pc = "done" => (monos_end = 0 /\ context = << >>)

\* the two segments (0,0)-(2,2) and (0,2)-(2,0)
XScene == << << << <<0, 0>>, <<2, 2>> >> >>, << << <<0, 2>>, <<2, 0>> >> >> >>

\* C2: for the X of (0,0)-(2,2) and (0,2)-(2,0) the returned Graph has
\* exactly four finished Sections and exactly one Vertex at (1,1), which all
\* four Sections share.
C2_XScenario ==
    (ps = XScene /\ pc = "done") =>
        /\ Len(sections) = 4
        /\ Cardinality({ k \in 1..Len(vertices) :
                           are_near_pt(vertices[k].avg, << One, One >>) }) = 1
        /\ \A n \in 1..Len(sections) :
               \/ are_near_pt(sections[n].fp, << One, One >>)
               \/ are_near_pt(sections[n].tp, << One, One >>)

\* the closed triangle (0,0)->(2,0)->(1,2)->(0,0)
TriangleScene ==
    << << << <<0, 0>>, <<2, 0>> >>, << <<2, 0>>, <<1, 2>> >>, << <<1, 2>>, <<0, 0>> >> >> >>

\* C3: for the closed triangle (0,0)->(2,0)->(1,2)->(0,0) the returned Graph
\* has exactly three Vertices and exactly three finished Sections, each a
\* whole input segment (no Section is split).
C3_Triangle ==
    (ps = TriangleScene /\ pc = "done") =>
        /\ Len(vertices) = 3
        /\ Len(sections) = 3
        /\ \A n \in 1..Len(sections) : { sections[n].f, sections[n].t } = { 0, One }

\* the positions of the Edges of a list that refer to Section n (0-based)
EdgesOf(edges, n) == { k \in 1..Len(edges) : edges[k].section = n }

\* the number of Edges held by the Vertices vs[1..k]
RECURSIVE EdgeCount(_, _)
EdgeCount(vs, k) ==
    IF k = 0 THEN 0
    ELSE Len(vs[k].enters) + Len(vs[k].exits) + EdgeCount(vs, k - 1)

\* C4: in every reachable state each finished Section is referenced by
\* exactly one Edge in the exits of its start Vertex, by exactly one Edge in
\* the enters of its end Vertex and by no other Edge, so the Vertices hold
\* twice as many Edges as there are finished Sections.
C4_EdgesMatchSections ==
    /\ \A n \in 1..Len(sections) :
           LET sv == find_vertex_ix(vertices, sections[n].fp)
               ev == find_vertex_ix(vertices, sections[n].tp)
           IN  /\ sv < Len(vertices)
               /\ ev < Len(vertices)
               /\ \A v \in 1..Len(vertices) :
                      /\ Cardinality(EdgesOf(vertices[v].exits, n - 1))
                            = (IF v = sv + 1 THEN 1 ELSE 0)
                      /\ Cardinality(EdgesOf(vertices[v].enters, n - 1))
                            = (IF v = ev + 1 THEN 1 ELSE 0)
    /\ EdgeCount(vertices, Len(vertices)) = 2 * Len(sections)

\* a state in which two finished Sections have their Edges
C4_Witness == Len(sections) >= 2 /\ EdgeCount(vertices, Len(vertices)) >= 4

\* the finished Sections of curve (path, ix)
FinishedOf(path, ix) ==
    { n \in 1..Len(sections) : sections[n].path = path /\ sections[n].ix = ix }

Lo(n) == Min(sections[n].f, sections[n].t)

Hi(n) == Max(sections[n].f, sections[n].t)

\* the finished Sections of curve (path, ix) cover [0,1] without overlap
Covers(path, ix) ==
    LET S == FinishedOf(path, ix)
    IN  /\ \E n \in S : are_near(Lo(n), 0)
        /\ \A n \in S : are_near(Hi(n), One) \/ \E m \in S : are_near(Lo(m), Hi(n))
        /\ \A n \in S : \A m \in S :
               n # m => (Hi(n) <= Lo(m) + Eps \/ Hi(m) <= Lo(n) + Eps)

\* C5: when sweep_graph returns, the parameter intervals of the finished
\* Sections of every input segment cover the whole of [0,1] (up to
\* tolerance) without overlapping.
C5_RoundTrip ==
    pc = "done" =>
        \A p \in 1..Len(ps) : \A j \in 1..Len(ps[p]) : Covers(p - 1, j - 1)

\* C6: every Section, pending, active or finished, has fp before or at tp on
\* the sweep axis d.
C6_Oriented == \A sec \in AllSections : sec.fp[d + 1] <= sec.tp[d + 1]

\* C7: for any derivative roots in [0,1], mono_splits returns a strictly
\* ascending sequence from 0 to 1 in which no two consecutive values are
\* within tolerance of each other.
C7_MonoSplits ==
    ret.fn = "mono_splits" =>
        /\ Len(ret.out) >= 2
        /\ ret.out[1] = 0
        /\ ret.out[Len(ret.out)] = One
        /\ \A k \in 1..(Len(ret.out) - 1) :
               ret.out[k] < ret.out[k + 1] /\ ~are_near(ret.out[k], ret.out[k + 1])

\* the winding of path p the spec gives a Section with the Sections
\* ctx[1..n] below it
SpecWinding(ctx, n, p) ==
    Cardinality({ j \in 1..n : /\ ctx[j].path = p
                               /\ ctx[j].fp[d + 1] # ctx[j].tp[d + 1]
                               /\ ctx[j].f < ctx[j].t })
      - Cardinality({ j \in 1..n : /\ ctx[j].path = p
                                   /\ ctx[j].fp[d + 1] # ctx[j].tp[d + 1]
                                   /\ ctx[j].f > ctx[j].t })

\* C8: when a Section is finished, entry p of its winding vector is the
\* number of Sections of path p below it in the context that are no slivers
\* and have f < t, minus the number of those that have f > t.
C8_Windings ==
    [][ (pc = "scan" /\ Len(sections') = Len(sections) + 1) =>
            \A p \in 1..Len(ps) :
                /\ Len(sections'[Len(sections')].windings) >= p
                /\ sections'[Len(sections')].windings[p] = SpecWinding(context, i, p - 1)
      ]_vars

\* C9: the winding vector of a pending or active Section is empty, that of a
\* finished Section has one entry per input path, and no winding update
\* reads or writes an index outside that range.
C9_WindingsShape ==
    /\ \A sec \in Pending : sec.windings = << >>
    /\ \A k \in 1..Len(context) : context[k].windings = << >>
    /\ \A k \in 1..Len(sections) : Len(sections[k].windings) = Len(ps)
    /\ ub # "windings"

\* the Vertices of vs near p, by position
NearOnes(vs, p) == { k \in 1..Len(vs) : are_near_pt(vs[k].avg, p) }

\* C10: find_vertex(vertices, p) returns the index of the first Vertex whose
\* point is within tolerance of p and leaves the registry unchanged; if there
\* is none it appends one Vertex with point p and empty edge lists and
\* returns its index, the previous size.
C10_FindVertex ==
    ret.fn = "find_vertex" =>
        IF NearOnes(call.vs, call.p) # {}
        THEN /\ ret.ix + 1 \in NearOnes(call.vs, call.p)
             /\ \A k \in NearOnes(call.vs, call.p) : ret.ix + 1 <= k
             /\ vertices = call.vs
        ELSE /\ ret.ix = Len(call.vs)
             /\ vertices = Append(call.vs,
                                  [avg |-> call.p, enters |-> << >>, exits |-> << >>])

\* find_vertex has found the second of three Vertices, the third being near
\* p too and the first holding an Edge
C10_Witness ==
    /\ ret.fn = "find_vertex"
    /\ ret.ix = 1
    /\ Cardinality(NearOnes(call.vs, call.p)) >= 2
    /\ Len(vertices) = 3
    /\ vertices[1].exits # << >>

\* C11: two runs of sweep_graph on the same paths and axis, each with its own
\* state, end the same way, and when they return they return the same
\* Vertices (points and edge lists) and the same finished Sections (curve, f,
\* t, fp, tp, windings).  A run ended by an assertion is left out: whether
\* assertions are compiled in is the same for both runs.
C11_Deterministic ==
    (call.fn = "sweep_graph" /\ pc \in Final /\ pc # "aborted" /\ ret.pc # "aborted") =>
        /\ pc = ret.pc
        /\ pc = "done" => (vertices = ret.vertices /\ sections = ret.sections)

\* C12: if an input curve has a non-finite coordinate, sweep_graph stops
\* before the first sweep step: no Section is popped, no Vertex is created
\* and no Graph is returned.
C12_InvalidGeometry ==
    HasNonFinite(ps) =>
        /\ pc \in { "entry", "pop" }
        /\ monos_end = msize
        /\ vertices = << >>

\* the split_section call of the step about to be taken fails the assertion
\* of set_to: the new trailing point precedes the leading point on axis d
AssertFails ==
    /\ pc = "intersect"
    /\ IF i < Len(context)
       THEN /\ i # context_ix
            /\ si_intersects(context[i + 1])
            /\ LET cur == monos[s + 1]
                   o   == context[i + 1]
                   xs  == mono_intersect(get(ps, cur.path, cur.ix), cur.f, cur.t,
                                         get(ps, o.path, o.ix), o.f, o.t)
               IN  split_section(o, ps, [k \in 1..Len(xs) |-> xs[k][2]], d).asrt
       ELSE split_section(context[context_ix + 1], ps, this_splits, d).asrt

\* C13: when a split would give a Section a trailing point that precedes its
\* leading point on the sweep axis, the sweep stops there with an error, so
\* that nothing derived from that Section is emitted into the Graph.
C13_OrderingViolation == [][AssertFails => pc' = "aborted"]_vars

\* s_sort(context[a], context[b]) for two positions of the context; an object
\* compared with itself is not less (line 206)
Below(a, b) == a # b /\ SectionSorter(ps, 1 - d, context[a], context[b])

\* C14: the context order is a strict weak ordering over the Sections that
\* are active together: irreflexive, asymmetric (never both a < b and b < a)
\* and transitive.
C14_StrictWeakOrder ==
    \A a \in 1..Len(context) : \A b \in 1..Len(context) :
        /\ ~Below(a, a)
        /\ ~(Below(a, b) /\ Below(b, a))
        /\ \A c \in 1..Len(context) : (Below(a, b) /\ Below(b, c)) => Below(a, c)

\* the parameter interval of sec lies inside that of whole
Inside(sec, whole) ==
    /\ Min(whole.f, whole.t) <= Min(sec.f, sec.t)
    /\ Max(sec.f, sec.t) <= Max(whole.f, whole.t)

\* C15: after split_section(s, cuts), for any raw cuts, the parameter
\* interval of the mutated Section and that of every new Section lie inside
\* the interval [f,t] s had before the call, and s keeps its f and fp.
C15_NoEnlarge ==
    (ret.fn = "split_section" /\ ret.ended = "returned") =>
        /\ Inside(ret.s, call.s)
        /\ \A k \in 1..Len(ret.ret) : Inside(ret.ret[k], call.s)
        /\ ret.s.f = call.s.f
        /\ ret.s.fp = call.s.fp

\* C16: after split_section the mutated Section and every new Section have
\* f and t that are not within tolerance of each other.
C16_NoZeroExtent ==
    (ret.fn = "split_section" /\ ret.ended = "returned") =>
        /\ ~are_near(ret.s.f, ret.s.t)
        /\ \A k \in 1..Len(ret.ret) : ~are_near(ret.ret[k].f, ret.ret[k].t)

\* the Vertex find_vertex gives for the leading point of finished Section n
StartOf(n) == find_vertex_ix(vertices, sections[n].fp)

\* the Vertex find_vertex gives for the trailing point of finished Section n
EndOf(n) == find_vertex_ix(vertices, sections[n].tp)

\* C17: for every finished Section, the Edge recorded at its start Vertex is
\* an incoming Edge of that Vertex (in enters) and the Edge recorded at its
\* end Vertex is an outgoing Edge of that Vertex (in exits).
C17_InAtStartOutAtEnd ==
    \A n \in 1..Len(sections) :
        /\ StartOf(n) < Len(vertices)
        /\ EndOf(n) < Len(vertices)
        /\ EdgesOf(vertices[StartOf(n) + 1].enters, n - 1) # {}
        /\ EdgesOf(vertices[EndOf(n) + 1].exits, n - 1) # {}

\* C17 as amended: for every finished Section, the Edge recorded at its
\* start Vertex is an outgoing Edge of that Vertex (in exits) and names the
\* end Vertex, the Edge recorded at its end Vertex is an incoming Edge of
\* that Vertex (in enters) and names the start Vertex, and the Section has no
\* Edge in the enters of its start Vertex or in the exits of its end Vertex.
C17_OutAtStartInAtEnd ==
    \A n \in 1..Len(sections) :
        /\ StartOf(n) < Len(vertices)
        /\ EndOf(n) < Len(vertices)
        /\ \E k \in EdgesOf(vertices[StartOf(n) + 1].exits, n - 1) :
               vertices[StartOf(n) + 1].exits[k].other = EndOf(n)
        /\ \E k \in EdgesOf(vertices[EndOf(n) + 1].enters, n - 1) :
               vertices[EndOf(n) + 1].enters[k].other = StartOf(n)
        /\ EdgesOf(vertices[StartOf(n) + 1].enters, n - 1) = {}
        /\ EdgesOf(vertices[EndOf(n) + 1].exits, n - 1) = {}

\* a Vertex at which one finished Section ends and another starts
C17_Witness ==
    \E v \in 1..Len(vertices) :
        vertices[v].enters # << >> /\ vertices[v].exits # << >>

\* C18: the sweep loop terminates by reaching its break: a run of the sweep
\* that has come to its end has left the loop through the break.
C18_Terminates == pc \in Final => pc = "done"

\* context[k] has its trailing coordinate on the sweep axis at or before lim
FinishedOnAxis(k) ==
    context[k + 1].tp[d + 1] < lim \/ are_near(context[k + 1].tp[d + 1], lim)

\* C19: a Section the scan finds finished is removed from the context in that
\* same step, together with its start-vertex index, a degenerate Section that
\* is discarded included (unless the step ends the program); and when the
\* scan is over no Section with its trailing coordinate at or before lim
\* remains in the context.
C19_FinishedRemoved ==
    [][ /\ (pc = "scan" /\ i >= 0 /\ Finished(i) /\ pc' = "scan") =>
              /\ context' = RemoveAt(context, i + 1)
              /\ vix' = RemoveAt(vix, i + 1)
        /\ (pc = "scan" /\ i < 0) =>
              \A k \in 0..(Len(context) - 1) : ~FinishedOnAxis(k)
      ]_vars

\* C20: a finished Section whose trailing point resolves to its own start
\* Vertex is never appended to the output and produces no Edge: no Edge has
\* its own Vertex as opposite Vertex and no Section of the output starts and
\* ends at the same Vertex.
C20_NoSelfEdge ==
    /\ \A v \in 1..Len(vertices) :
           /\ \A k \in 1..Len(vertices[v].enters) : vertices[v].enters[k].other # v - 1
           /\ \A k \in 1..Len(vertices[v].exits) : vertices[v].exits[k].other # v - 1
    /\ \A n \in 1..Len(sections) : StartOf(n) # EndOf(n)

\* the scan has passed a finished Section that ends at its own start Vertex,
\* with a Section already in the output
C20_Witness ==
    /\ pc = "scan"
    /\ sections # << >>
    /\ \E k \in (i + 1)..(Len(context) - 1) :
           /\ Finished(k)
           /\ find_vertex_ix(vertices, context[k + 1].tp) = vix[k + 1]

\* C21: for any raw splits and any f # t, process_splits(splits, f, t) leaves
\* at least two values, the first exactly f and the last exactly t, ordered
\* from f to t (descending when f > t), none outside [f,t]; so its second
\* element can always be read.
C21_ProcessSplits ==
    ret.fn = "process_splits" =>
        /\ Len(ret.out) >= 2
        /\ ret.out[1] = call.f
        /\ ret.out[Len(ret.out)] = call.t
        /\ \A k \in 1..(Len(ret.out) - 1) :
               IF call.f > call.t THEN ret.out[k] > ret.out[k + 1]
               ELSE ret.out[k] < ret.out[k + 1]
        /\ \A k \in 1..Len(ret.out) :
               Min(call.f, call.t) <= ret.out[k] /\ ret.out[k] <= Max(call.f, call.t)

\* C22: at each step with a non-empty pending queue the candidate popped is
\* a pending Section whose leading point is lexicographically smallest (sweep
\* axis first, then the other axis) among all pending Sections, those pushed
\* by earlier splits included.
C22_PopsSmallest ==
    [][ (pc = "pop" /\ monos_end # 0) =>
            /\ monos'[s' + 1] \in Pending
            /\ \A k \in 1..monos_end : ~lexo_point(monos[k].fp, monos'[s' + 1].fp, d)
      ]_vars

\* the candidate just popped is a piece made by a split, with Sections
\* still pending
C22_Witness ==
    /\ pc = "scan"
    /\ s = monos_end
    /\ monos_end >= 1
    /\ { monos[s + 1].f, monos[s + 1].t } # { 0, One }

\* a finished Section, or a Vertex, with the coordinates of its points
\* exchanged
SwapSection(sec) == [sec EXCEPT !.fp = SwapPt(@), !.tp = SwapPt(@)]

SwapVertex(v) == [v EXCEPT !.avg = SwapPt(@)]

\* C23: for either sweep axis d the initial Sections are oriented along d,
\* the finishing test and the sliver test of the scan compare the
\* coordinates on axis d, and the result for an axis is the result for the
\* other axis on the input with the coordinates exchanged.
C23_AxisSymmetric ==
    /\ (pc = "pop" /\ s = -1) => \A sec \in Pending : sec.fp[d + 1] <= sec.tp[d + 1]
    /\ (pc = "scan" /\ i >= 0) =>
           /\ Finished(i) <=> FinishedOnAxis(i)
           /\ \A j \in 1..i :
                  (context[j].fp[X + 1] = context[j].tp[X + 1])
                      <=> (context[j].fp[d + 1] = context[j].tp[d + 1])
    /\ (call.fn = "sweep_graph_swapped" /\ pc = "done" /\ ret.pc = "done") =>
           /\ sections = [n \in 1..Len(ret.sections) |-> SwapSection(ret.sections[n])]
           /\ vertices = [n \in 1..Len(ret.vertices) |-> SwapVertex(ret.vertices[n])]

\* a is a prefix of b: b is a with elements appended
IsPrefix(a, b) == Len(a) <= Len(b) /\ \A k \in 1..Len(a) : b[k] = a[k]

\* C24: no two distinct Vertices of the registry are within tolerance of
\* each other; a Vertex keeps its index and its point, Vertices and finished
\* Sections are never removed, and the only change to a Vertex is an append
\* to its edge lists.
C24_VertexRegistry ==
    /\ [](\A a \in 1..Len(vertices), b \in 1..Len(vertices) :
              a # b => ~are_near_pt(vertices[a].avg, vertices[b].avg))
    /\ [][ /\ Len(vertices') >= Len(vertices)
           /\ \A k \in 1..Len(vertices) :
                  /\ vertices'[k].avg = vertices[k].avg
                  /\ IsPrefix(vertices[k].enters, vertices'[k].enters)
                  /\ IsPrefix(vertices[k].exits, vertices'[k].exits)
           /\ IsPrefix(sections, sections') ]_vars

C24_Witness ==
    /\ Len(vertices) >= 3
    /\ \E k \in 1..Len(vertices) : Len(vertices[k].enters) >= 1 /\ Len(vertices[k].exits) >= 1

\* C25: every Edge's section index is a position of the finished-Section
\* list and its opposite-Vertex index a position of the Vertex list; the
\* Section of an Edge in the exits of v leads at v's point and trails at the
\* opposite Vertex's point, within tolerance, and the other way round for an
\* Edge in the enters of v.
C25_EdgesValid ==
    \A v \in 1..Len(vertices) :
        /\ \A k \in 1..Len(vertices[v].exits) :
               LET e == vertices[v].exits[k]
               IN  /\ e.section \in 0..(Len(sections) - 1)
                   /\ e.other \in 0..(Len(vertices) - 1)
                   /\ are_near_pt(sections[e.section + 1].fp, vertices[v].avg)
                   /\ are_near_pt(sections[e.section + 1].tp, vertices[e.other + 1].avg)
        /\ \A k \in 1..Len(vertices[v].enters) :
               LET e == vertices[v].enters[k]
               IN  /\ e.section \in 0..(Len(sections) - 1)
                   /\ e.other \in 0..(Len(vertices) - 1)
                   /\ are_near_pt(sections[e.section + 1].tp, vertices[v].avg)
                   /\ are_near_pt(sections[e.section + 1].fp, vertices[e.other + 1].avg)

C25_Witness ==
    /\ Len(sections) >= 3
    /\ \E v \in 1..Len(vertices) : Len(vertices[v].exits) >= 2

\* C26: vix is parallel to the context: both have the same length and the
\* Vertex at index vix[k] has its point within tolerance of context[k].fp,
\* after insertions, removals and splits in place.
C26_VixParallel ==
    /\ Len(vix) = Len(context)
    /\ \A k \in 1..Len(context) :
           /\ vix[k] \in 0..(Len(vertices) - 1)
           /\ are_near_pt(vertices[vix[k] + 1].avg, context[k].fp)

\* two Sections in the context, the upper one inserted last and one of them
\* split in place, after a Section was removed
C26_Witness ==
    /\ Len(context) >= 2
    /\ Len(sections) >= 1
    /\ vix[1] > vix[2]
    /\ \E k \in 1..Len(context) :
           context[k].f \in { 0, One } /\ context[k].t \notin { 0, One }

\* parameter t is within tolerance of an end of the interval of sec
AtEnd(sec, t) == are_near(t, sec.f) \/ are_near(t, sec.t)

\* Sections a and b cross at a parameter strictly inside the interval of one
\* of them
CrossInside(a, b) ==
    LET xs == mono_intersect(get(ps, a.path, a.ix), a.f, a.t,
                             get(ps, b.path, b.ix), b.f, b.t)
    IN  \E k \in 1..Len(xs) : ~AtEnd(a, xs[k][1]) \/ ~AtEnd(b, xs[k][2])

\* C27: after the splitting of a step no two Sections of the context cross
\* at a parameter strictly inside the interval of either of them.
C27_NoInteriorCrossing ==
    (pc = "pop" /\ s >= 0) =>
        \A a \in 1..Len(context), b \in 1..Len(context) :
            a # b => ~CrossInside(context[a], context[b])

\* the Section split_section leaves followed by the Sections it returns
SplitParts == << ret.s >> \o ret.ret

\* C28: split_section partitions the Section: the mutated Section and the
\* returned Sections cover consecutive parameter intervals, each starting
\* where the previous one ends, running the way [f,t] ran, from the f to the
\* t the Section had before the call, all on the original curve.
C28_Partition ==
    ret.fn = "split_section" =>
        /\ ret.ended = "returned"
        /\ SplitParts[1].f = call.s.f
        /\ SplitParts[Len(SplitParts)].t = call.s.t
        /\ \A k \in 1..(Len(SplitParts) - 1) : SplitParts[k + 1].f = SplitParts[k].t
        /\ \A k \in 1..Len(SplitParts) :
               /\ SplitParts[k].path = call.s.path
               /\ SplitParts[k].ix = call.s.ix
               /\ IF call.s.f < call.s.t
                  THEN SplitParts[k].f < SplitParts[k].t
                  ELSE SplitParts[k].f > SplitParts[k].t

\* C29: the sweep position never moves backwards: the lim of a step with a
\* candidate is at least the lim of the step before, and every Section a
\* split pushes into the pending queue leads at a coordinate on d that is at
\* least the lim of the step.
C29_LimMonotone ==
    [][ /\ (pc = "pop" /\ monos_end # 0 /\ s >= 0) => lim' >= lim
        /\ pc = "intersect" =>
               \A k \in 1..monos_end' :
                   (\A j \in 1..monos_end : monos[j] # monos'[k])
                       => monos'[k].fp[d + 1] >= lim ]_vars

\* the advance an operation asks for: n, or -n for operator-= and operator-
AdvanceOf(c) == IF c.fn \in { "-=", "-" } THEN 0 - c.n ELSE c.n

\* C30: on a circulator over a non-empty range of length r at position p,
\* +=, -=, +, - and [] advancing by n give the position (p + n) mod r, which
\* lies in [first, last) and is never last.
C30_Advance ==
    (call.fn \in { "+=", "-=", "+", "-", "[]" }
        /\ call.self.pos >= call.self.first /\ call.self.pos < call.self.last) =>
        /\ ret.ended = "returned"
        /\ ret.out = call.self.first
                       + ((call.self.pos - call.self.first + AdvanceOf(call))
                              % (call.self.last - call.self.first))
        /\ ret.out >= call.self.first
        /\ ret.out < call.self.last

\* C31: the number of Sections in the pending heap never exceeds the number
\* of elements of the vector monos, so push_them never writes a Section past
\* the end of the vector.
C31_HeapWithinVector ==
    /\ monos_end <= msize
    /\ ub # "push_them"

====
